---- MODULE Spec2Model ----
(***************************************************************************)
(* A model of the U.S. federal tax calculator: the bracket engine and the  *)
(* schedule registry of calculator.py, the state lookup of state_tax.py    *)
(* and the interactive loop of main.py.                                    *)
(*                                                                         *)
(* Numbers.  Every amount the program handles is a Python float (or an int *)
(* that is compared and combined with floats).  A float is modelled as a   *)
(* record [k, n]: k = "fin" carries the integer n, and k = "nan", "inf",   *)
(* "-inf" are the three non-finite values float() can return.  Incomes,    *)
(* bounds and deductions are whole dollars; a rate is an integer number of *)
(* percent (0.10 is 10), so that amount * rate, and every tax, is a whole  *)
(* number of cents.  Arithmetic on finite values is exact: binary rounding *)
(* of the products is not modelled.  None is the record with k = "none".   *)
(***************************************************************************)
EXTENDS Integers, Sequences, FiniteSets

VARIABLES
    call, ret,                                   \* a direct call of calculator.py
    pc, filing_status, income, taxable_income,   \* main()'s locals
    entered,                                     \* get_and_confirm_income's income
    deduction, deduction_type, state, state_tax_amount, state_label,
    brackets, total_tax, breakdown, marginal_rate, effective_rate,
    after_tax_income

vars == <<call, ret, pc, filing_status, entered, income, taxable_income, deduction,
          deduction_type, state, state_tax_amount, state_label, brackets,
          total_tax, breakdown, marginal_rate, effective_rate,
          after_tax_income>>

mainVars == <<pc, filing_status, entered, income, taxable_income, deduction,
              deduction_type, state, state_tax_amount, state_label, brackets,
              total_tax, breakdown, marginal_rate, effective_rate,
              after_tax_income>>

(***************************************************************************)
(* Python values                                                           *)
(***************************************************************************)
Fin(x) == [k |-> "fin", n |-> x]
NaN == [k |-> "nan", n |-> 0]
PosInf == [k |-> "inf", n |-> 0]
NegInf == [k |-> "-inf", n |-> 0]
None == [k |-> "none", n |-> 0]
ValueError == [k |-> "ValueError", n |-> 0]
ZeroDivisionError == [k |-> "ZeroDivisionError", n |-> 0]
Ratio(num, den) == [k |-> "ratio", n |-> num, d |-> den]

IsNaN(a) == a.k = "nan"

\* a < b on floats: false as soon as one side is NaN.
FLt(a, b) ==
    /\ ~IsNaN(a)
    /\ ~IsNaN(b)
    /\ \/ a.k = "-inf" /\ b.k # "-inf"
       \/ a.k # "inf" /\ b.k = "inf"
       \/ a.k = "fin" /\ b.k = "fin" /\ a.n < b.n

\* a <= b on floats.
FLe(a, b) == ~IsNaN(a) /\ ~IsNaN(b) /\ (a = b \/ FLt(a, b))

\* a > b on floats.
FGt(a, b) == FLt(b, a)

\* a + b on floats.
FAdd(a, b) ==
    IF IsNaN(a) \/ IsNaN(b) THEN NaN
    ELSE IF a.k = "fin" /\ b.k = "fin" THEN Fin(a.n + b.n)
    ELSE IF a.k = "fin" THEN b
    ELSE IF b.k = "fin" THEN a
    ELSE IF a = b THEN a
    ELSE NaN

\* -a on floats.
FNeg(a) ==
    IF a.k = "fin" THEN Fin(0 - a.n)
    ELSE IF a.k = "inf" THEN NegInf
    ELSE IF a.k = "-inf" THEN PosInf
    ELSE a

\* a - b on floats.
FSub(a, b) == FAdd(a, FNeg(b))

\* amount * rate, rate a finite positive number of percent: dollars to cents.
FMul(a, rate) == IF a.k = "fin" THEN Fin(a.n * rate) ELSE a

\* A dollar amount expressed in cents, the unit the taxes are carried in.
Cents(a) == IF a.k = "fin" THEN Fin(a.n * 100) ELSE a

\* a / b on floats, both in the same unit; the quotient of two finite values is
\* kept as an exact fraction.
FDiv(a, b) ==
    IF b.k = "fin" /\ b.n = 0 THEN ZeroDivisionError
    ELSE IF IsNaN(a) \/ IsNaN(b) THEN NaN
    ELSE IF a.k = "fin" /\ b.k = "fin"
         THEN IF a.n = 0 THEN Fin(0) ELSE Ratio(a.n, b.n)
    ELSE IF a.k = "fin" THEN Fin(0)
    ELSE IF b.k # "fin" THEN NaN
    ELSE IF b.n > 0 THEN a
    ELSE FNeg(a)

\* Python's min(a, b): b when b < a, else a (so a NaN first argument wins).
PyMin(a, b) == IF FLt(b, a) THEN b ELSE a

(***************************************************************************)
(* Python strings: a str is a sequence of one-character strings.           *)
(***************************************************************************)
UpperLetters ==
    <<"A", "B", "C", "D", "E", "F", "G", "H", "I", "J", "K", "L", "M">> \o
    <<"N", "O", "P", "Q", "R", "S", "T", "U", "V", "W", "X", "Y", "Z">>

LowerLetters ==
    <<"a", "b", "c", "d", "e", "f", "g", "h", "i", "j", "k", "l", "m">> \o
    <<"n", "o", "p", "q", "r", "s", "t", "u", "v", "w", "x", "y", "z">>

Digits == <<"0", "1", "2", "3", "4", "5", "6", "7", "8", "9">>

IndexIn(letters, c) == CHOOSE i \in 1..Len(letters) : letters[i] = c
IsIn(letters, c) == \E i \in 1..Len(letters) : letters[i] = c

\* str.lower() and str.upper().
Lower(s) ==
    [i \in 1..Len(s) |->
        IF IsIn(UpperLetters, s[i]) THEN LowerLetters[IndexIn(UpperLetters, s[i])]
        ELSE s[i]]
Upper(s) ==
    [i \in 1..Len(s) |->
        IF IsIn(LowerLetters, s[i]) THEN UpperLetters[IndexIn(LowerLetters, s[i])]
        ELSE s[i]]

\* str.strip(): leading and trailing blanks removed.
RECURSIVE LStrip(_)
LStrip(s) == IF s # <<>> /\ Head(s) = " " THEN LStrip(Tail(s)) ELSE s
RECURSIVE RStrip(_)
RStrip(s) ==
    IF s # <<>> /\ s[Len(s)] = " " THEN RStrip(SubSeq(s, 1, Len(s) - 1)) ELSE s
Strip(s) == RStrip(LStrip(s))

\* raw.replace(",", "").
NotComma(c) == c # ","
RemoveCommas(s) == SelectSeq(s, NotComma)

\* The value of a string of decimal digits.
RECURSIVE DigitsValue(_)
DigitsValue(s) ==
    IF s = <<>> THEN 0
    ELSE 10 * DigitsValue(SubSeq(s, 1, Len(s) - 1)) + (IndexIn(Digits, s[Len(s)]) - 1)

AllDigits(s) == s # <<>> /\ \A i \in 1..Len(s) : IsIn(Digits, s[i])

\* float(s) on an unsigned literal: decimal digits, "nan", "inf" or "infinity"
\* in any case; anything else raises ValueError.  (Fractions, exponents and
\* padding blanks, which float() also reads, are not among the inputs drawn.)
FloatUnsigned(s) ==
    IF AllDigits(s) THEN Fin(DigitsValue(s))
    ELSE IF Lower(s) = <<"n", "a", "n">> THEN NaN
    ELSE IF Lower(s) \in {<<"i", "n", "f">>,
                          <<"i", "n", "f", "i", "n", "i", "t", "y">>} THEN PosInf
    ELSE ValueError

\* float(s): an optional sign, then an unsigned literal.
ParseFloat(s) ==
    IF s # <<>> /\ Head(s) = "-"
    THEN IF FloatUnsigned(Tail(s)) = ValueError THEN ValueError
         ELSE FNeg(FloatUnsigned(Tail(s)))
    ELSE IF s # <<>> /\ Head(s) = "+" THEN FloatUnsigned(Tail(s))
    ELSE FloatUnsigned(s)

(***************************************************************************)
(* calculator.py: the schedule registry                                    *)
(***************************************************************************)
SINGLE == <<"s", "i", "n", "g", "l", "e">>
MFJ == <<"m", "f", "j">>

\* dict.get(key, default) on a dict written as a sequence of <<key, value>>.
DictHas(d, key) == \E i \in 1..Len(d) : d[i][1] = key
DictGet(d, key, default) ==
    IF DictHas(d, key)
    THEN d[CHOOSE i \in 1..Len(d) : d[i][1] = key][2]
    ELSE default

\* d[key] in place of d.get(key, default): a missing key raises KeyError.
KeyError == [k |-> "KeyError", n |-> 0]
DictIndex(d, key) == DictGet(d, key, KeyError)

STANDARD_DEDUCTIONS == << <<SINGLE, Fin(15750)>>, <<MFJ, Fin(31500)>> >>

\* The table with a mistyped bound: the second single bracket starts at 11952.
FEDERAL_TAX_BRACKETS_gap ==
    << <<SINGLE, << <<10, Fin(0), Fin(11925)>>,
                    <<12, Fin(11952), Fin(48475)>>,
                    <<22, Fin(48475), None>> >> >>,
       <<MFJ,    << <<10, Fin(0), Fin(23850)>>,
                    <<12, Fin(23850), None>> >> >> >>

FEDERAL_TAX_BRACKETS ==
    << <<SINGLE, << <<10, Fin(0), Fin(11925)>>,
                    <<12, Fin(11925), Fin(48475)>>,
                    <<22, Fin(48475), Fin(103350)>>,
                    <<24, Fin(103350), Fin(197300)>>,
                    <<32, Fin(197300), Fin(250525)>>,
                    <<35, Fin(250525), Fin(626350)>>,
                    <<37, Fin(626350), None>> >> >>,
       <<MFJ,    << <<10, Fin(0), Fin(23850)>>,
                    <<12, Fin(23850), Fin(96950)>>,
                    <<22, Fin(96950), Fin(206700)>>,
                    <<24, Fin(206700), Fin(394600)>>,
                    <<32, Fin(394600), Fin(501050)>>,
                    <<35, Fin(501050), Fin(751600)>>,
                    <<37, Fin(751600), None>> >> >> >>

get_federal_brackets(fs) == DictGet(FEDERAL_TAX_BRACKETS, fs, <<>>)

\* STANDARD_DEDUCTIONS[filing_status] in place of .get(filing_status, 0.0).
get_standard_deduction_index(fs) == DictIndex(STANDARD_DEDUCTIONS, fs)

get_standard_deduction(fs) == DictGet(STANDARD_DEDUCTIONS, fs, Fin(0))

(***************************************************************************)
(* calculator.py: the bracket engine                                       *)
(***************************************************************************)
\* The cap without the min: the whole income is taken as the cap.
BracketCap_nocap(ti, upper) == ti

\* The cap of one bracket: upper is None for "no cap".
BracketCap(ti, upper) == IF upper = None THEN ti ELSE PyMin(ti, upper)

\* total_tax = tax_for_bracket in place of +=.
AddToTotal_assign(tt, tax_for_bracket) == tax_for_bracket

\* total_tax += tax_for_bracket in calculate_total_tax.
AddToTotal(tt, tax_for_bracket) == FAdd(tt, tax_for_bracket)

\* The for loop of calculate_total_tax from bracket i on, tt the running total.
RECURSIVE total_tax_loop(_, _, _, _)
total_tax_loop(ti, bs, i, tt) ==
    IF i > Len(bs) THEN tt
    ELSE LET rate == bs[i][1]
             lower == bs[i][2]
             upper == bs[i][3]
         IN IF FLe(ti, lower) THEN tt
            ELSE LET cap == BracketCap(ti, upper)
                     amount_in_bracket == FSub(cap, lower)
                     tax_for_bracket == FMul(amount_in_bracket, rate)
                 IN total_tax_loop(ti, bs, i + 1, AddToTotal(tt, tax_for_bracket))

calculate_total_tax(ti, bs) == total_tax_loop(ti, bs, 1, Fin(0))

\* amount_in_bracket > 1 in place of > 0.
RecordsBracket_gt1(amount_in_bracket) == FGt(amount_in_bracket, Fin(1))

\* amount_in_bracket < 0 in place of > 0.
RecordsBracket_lt0(amount_in_bracket) == FLt(amount_in_bracket, Fin(0))

\* Whether calculate_tax_breakdown records the bracket: amount_in_bracket > 0.
RecordsBracket(amount_in_bracket) == FGt(amount_in_bracket, Fin(0))

\* The for loop of calculate_tax_breakdown from bracket i on; acc is the pair
\* <<total_tax, breakdown>> so far.
RECURSIVE breakdown_loop(_, _, _, _)
breakdown_loop(ti, bs, i, acc) ==
    IF i > Len(bs) THEN acc
    ELSE LET rate == bs[i][1]
             lower == bs[i][2]
             upper == bs[i][3]
         IN IF FLe(ti, lower) THEN acc
            ELSE LET cap == BracketCap(ti, upper)
                     amount_in_bracket == FSub(cap, lower)
                     tax_for_bracket == FMul(amount_in_bracket, rate)
                 IN IF RecordsBracket(amount_in_bracket)
                    THEN breakdown_loop(ti, bs, i + 1,
                            <<FAdd(acc[1], tax_for_bracket),
                              Append(acc[2], <<rate, amount_in_bracket,
                                               tax_for_bracket, lower, upper>>)>>)
                    ELSE breakdown_loop(ti, bs, i + 1, acc)

calculate_tax_breakdown(ti, bs) == breakdown_loop(ti, bs, 1, <<Fin(0), <<>>>>)

\* The for loop of get_marginal_rate from bracket i on, mr the rate so far.
\* taxable_income >= lower in place of > lower.
ReachesBracket_ge(ti, lower) == FLe(lower, ti)

\* Whether get_marginal_rate takes the bracket's rate: taxable_income > lower.
ReachesBracket(ti, lower) == FGt(ti, lower)

RECURSIVE marginal_rate_loop(_, _, _, _)
marginal_rate_loop(ti, bs, i, mr) ==
    IF i > Len(bs) THEN mr
    ELSE IF ReachesBracket(ti, bs[i][2]) THEN marginal_rate_loop(ti, bs, i + 1, bs[i][1])
    ELSE mr

\* The loop without its break: the rate of the last bracket whatever the income.
get_marginal_rate_nobreak(ti, bs) == IF bs = <<>> THEN 0 ELSE bs[Len(bs)][1]

get_marginal_rate(ti, bs) == marginal_rate_loop(ti, bs, 1, 0)

\* total_tax is in cents and gross_income in dollars: the quotient is taken
\* over cents.
calculate_effective_rate(tt, gross_income) ==
    IF FLe(gross_income, Fin(0)) THEN Fin(0)
    ELSE FDiv(tt, Cents(gross_income))

(***************************************************************************)
(* state_tax.py                                                            *)
(***************************************************************************)
STATE_TAX_TYPE_2025 ==
    << <<<<"A", "K">>, "none">>, <<<<"A", "L">>, "graduated">>, <<<<"A", "R">>, "graduated">>,
       <<<<"A", "Z">>, "flat">>, <<<<"C", "A">>, "graduated">>, <<<<"C", "O">>, "flat">>,
       <<<<"C", "T">>, "graduated">>, <<<<"D", "C">>, "graduated">>, <<<<"D", "E">>, "graduated">>,
       <<<<"F", "L">>, "none">>, <<<<"G", "A">>, "flat">>, <<<<"H", "I">>, "graduated">>,
       <<<<"I", "A">>, "flat">>, <<<<"I", "D">>, "flat">>, <<<<"I", "L">>, "flat">>,
       <<<<"I", "N">>, "flat">>, <<<<"K", "S">>, "graduated">>, <<<<"K", "Y">>, "flat">>,
       <<<<"L", "A">>, "flat">>, <<<<"M", "A">>, "graduated">>, <<<<"M", "D">>, "graduated">>,
       <<<<"M", "E">>, "graduated">>, <<<<"M", "I">>, "flat">>, <<<<"M", "N">>, "graduated">>,
       <<<<"M", "O">>, "graduated">>, <<<<"M", "S">>, "flat">>, <<<<"M", "T">>, "graduated">>,
       <<<<"N", "C">>, "flat">>, <<<<"N", "D">>, "graduated">>, <<<<"N", "E">>, "graduated">>,
       <<<<"N", "H">>, "none">>, <<<<"N", "J">>, "graduated">>, <<<<"N", "M">>, "graduated">>,
       <<<<"N", "V">>, "none">>, <<<<"N", "Y">>, "graduated">>, <<<<"O", "H">>, "graduated">>,
       <<<<"O", "K">>, "graduated">>, <<<<"O", "R">>, "graduated">>, <<<<"P", "A">>, "flat">>,
       <<<<"R", "I">>, "graduated">>, <<<<"S", "C">>, "graduated">>, <<<<"S", "D">>, "none">>,
       <<<<"T", "N">>, "none">>, <<<<"T", "X">>, "none">>, <<<<"U", "T">>, "flat">>,
       <<<<"V", "A">>, "graduated">>, <<<<"V", "T">>, "graduated">>, <<<<"W", "A">>, "flat">>,
       <<<<"W", "I">>, "graduated">>, <<<<"W", "V">>, "graduated">>, <<<<"W", "Y">>, "none">> >>

STATE_ALIASES ==
    << <<<<"T", "E", "X", "A", "S">>, <<"T", "X">>>>,
       <<<<"F", "L", "O", "R", "I", "D", "A">>, <<"F", "L">>>>,
       <<<<"N", "E", "V", "A", "D", "A">>, <<"N", "V">>>>,
       <<<<"W", "A", "S", "H", "I", "N", "G", "T", "O", "N">>, <<"W", "A">>>>,
       <<<<"A", "L", "A", "S", "K", "A">>, <<"A", "K">>>>,
       <<<<"N", "E", "W", " ", "H", "A", "M", "P", "S", "H", "I", "R", "E">>, <<"N", "H">>>>,
       <<<<"S", "O", "U", "T", "H", " ", "D", "A", "K", "O", "T", "A">>, <<"S", "D">>>>,
       <<<<"T", "E", "N", "N", "E", "S", "S", "E", "E">>, <<"T", "N">>>>,
       <<<<"W", "Y", "O", "M", "I", "N", "G">>, <<"W", "Y">>>> >>

normalize_state(user_input) ==
    LET s == Upper(Strip(user_input)) IN DictGet(STATE_ALIASES, s, s)

get_state_tax_type(state_code) == DictGet(STATE_TAX_TYPE_2025, state_code, "unknown")

\* The pair <<state_tax_or_None, label_str>>.
calculate_state_tax(ti, state_code) ==
    LET tax_type == get_state_tax_type(state_code)
    IN IF tax_type = "none" THEN <<Fin(0), "No state income tax">>
       ELSE IF tax_type = "flat" THEN <<None, "N/A (flat tax not yet implemented)">>
       ELSE IF tax_type = "graduated"
            THEN <<None, "N/A (graduated tax not yet implemented)">>
       ELSE <<None, "N/A (unknown/unsupported state)">>

(***************************************************************************)
(* main.py: what the user may type at each prompt                          *)
(***************************************************************************)
RawStatuses ==
    { SINGLE, <<"M", "F", "J">>, <<"S", "i", "n", "g", "l", "e">>,
      <<"h", "o", "h">>, <<>> }

RawNumbers ==
    { <<"5", "0", ",", "0", "0", "0">>, <<"1", ",", "0", "0", "0", ",", "0", "0", "0">>,
      <<"0">>, <<"1", "0", "0", "0", "0">>, <<"-", "5", "0", "0", "0">>,
      <<"a", "b", "c">>, <<>>, <<"n", "a", "n">>, <<"i", "n", "f">> }

RawChoices == { <<"y">>, <<"Y">>, <<"n">>, <<"N">>, <<"x">>, <<>> }

RawStates ==
    { <<" ", "t", "x", " ">>, <<"T", "e", "x", "a", "s">>, <<"C", "A">>,
      <<"w", "a">>, <<"z", "z">> }

(***************************************************************************)
(* main.py: the interactive loop, one action per input() it waits on       *)
(***************************************************************************)
\* The clamp of apply_standard_deduction: income - deduction, 0 when negative.
ClampTaxable(inc, ded) ==
    LET t == FSub(inc, ded) IN IF FLt(t, Fin(0)) THEN Fin(0) ELSE t

\* The label of the standard deduction for a filing status.
StandardLabel(fs) ==
    IF fs = SINGLE THEN "Standard Deduction (Single)" ELSE "Standard Deduction (MFJ)"

\* The denominator main hands to calculate_effective_rate: the gross income.
EffectiveRateBase(gross, taxable) == gross

\* main: the filing status prompt, repeated until 'single' or 'mfj' is typed.
PromptFilingStatus ==
    /\ pc = "filing_status"
    /\ \E raw \in RawStatuses :
        /\ filing_status' = Lower(raw)
        /\ pc' = IF Lower(raw) \in {SINGLE, MFJ} THEN "get_income" ELSE "filing_status"
    /\ UNCHANGED <<call, ret, entered, income, taxable_income, deduction,
                   deduction_type, state, state_tax_amount, state_label, brackets,
                   total_tax, breakdown, marginal_rate, effective_rate,
                   after_tax_income>>

\* get_income: an unknown filing status returns 0.0 without prompting; a string
\* float() rejects prompts again (the function calls itself; the depth of that
\* recursion is not modelled).
GetIncome ==
    /\ pc = "get_income"
    /\ IF filing_status \in {SINGLE, MFJ}
       THEN \E raw \in RawNumbers :
               LET v == ParseFloat(RemoveCommas(raw))
               IN IF v = ValueError
                  THEN entered' = entered /\ pc' = "get_income"
                  ELSE entered' = v /\ pc' = "confirm"
       ELSE entered' = Fin(0) /\ pc' = "confirm"
    /\ UNCHANGED <<call, ret, filing_status, income, taxable_income, deduction,
                   deduction_type, state, state_tax_amount, state_label, brackets,
                   total_tax, breakdown, marginal_rate, effective_rate,
                   after_tax_income>>

\* get_and_confirm_income: 'y' returns the income to main, anything else asks
\* for the income again.
ConfirmIncome ==
    /\ pc = "confirm"
    /\ \E raw \in RawChoices :
        IF Lower(raw) = <<"y">>
        THEN income' = entered /\ pc' = "deduction"
        ELSE income' = income /\ pc' = "get_income"
    /\ UNCHANGED <<call, ret, filing_status, entered, taxable_income, deduction,
                   deduction_type, state, state_tax_amount, state_label, brackets,
                   total_tax, breakdown, marginal_rate, effective_rate,
                   after_tax_income>>

\* apply_standard_deduction: the Y/N prompt.  'y', and any answer other than
\* 'n', take the standard deduction; 'n' goes on to the custom amount.
ChooseDeduction ==
    /\ pc = "deduction"
    /\ \E raw \in RawChoices :
        IF Lower(raw) = <<"n">>
        THEN /\ pc' = "custom_deduction"
             /\ UNCHANGED <<taxable_income, deduction, deduction_type>>
        ELSE /\ deduction' = get_standard_deduction(filing_status)
             /\ deduction_type' = StandardLabel(filing_status)
             /\ taxable_income' =
                    ClampTaxable(income, get_standard_deduction(filing_status))
             /\ pc' = "state"
    /\ UNCHANGED <<call, ret, filing_status, entered, income, state,
                   state_tax_amount, state_label, brackets, total_tax, breakdown,
                   marginal_rate, effective_rate, after_tax_income>>

\* apply_standard_deduction: the custom amount.  A string float() rejects
\* starts the function again, at the Y/N prompt.
CustomDeduction ==
    /\ pc = "custom_deduction"
    /\ \E raw \in RawNumbers :
        LET v == ParseFloat(RemoveCommas(raw))
        IN IF v = ValueError
           THEN /\ pc' = "deduction"
                /\ UNCHANGED <<taxable_income, deduction, deduction_type>>
           ELSE /\ deduction' = v
                /\ deduction_type' = "Custom Deduction"
                /\ taxable_income' = ClampTaxable(income, v)
                /\ pc' = "state"
    /\ UNCHANGED <<call, ret, filing_status, entered, income, state,
                   state_tax_amount, state_label, brackets, total_tax, breakdown,
                   marginal_rate, effective_rate, after_tax_income>>

\* main: the state prompt, and everything main computes before it asks whether
\* to run again.  The display functions only print.
EnterState ==
    /\ pc = "state"
    /\ \E raw \in RawStates :
        LET st == normalize_state(raw)
            bs == get_federal_brackets(filing_status)
            res == calculate_tax_breakdown(taxable_income, bs)
        IN /\ state' = st
           /\ state_tax_amount' = calculate_state_tax(taxable_income, st)[1]
           /\ state_label' = calculate_state_tax(taxable_income, st)[2]
           /\ brackets' = bs
           /\ total_tax' = res[1]
           /\ breakdown' = res[2]
           /\ marginal_rate' = get_marginal_rate(taxable_income, bs)
           /\ effective_rate' =
                  calculate_effective_rate(res[1],
                                           EffectiveRateBase(income, taxable_income))
           /\ after_tax_income' = FSub(Cents(income), res[1])
    /\ pc' = "again"
    /\ UNCHANGED <<call, ret, filing_status, entered, income, taxable_income,
                   deduction, deduction_type>>

\* main: "Run another calculation?": 'y' starts over, anything else ends.
RunAgain ==
    /\ pc = "again"
    /\ \E raw \in RawChoices :
        pc' = IF Lower(raw) = <<"y">> THEN "filing_status" ELSE "exit"
    /\ UNCHANGED <<call, ret, filing_status, entered, income, taxable_income,
                   deduction, deduction_type, state, state_tax_amount, state_label,
                   brackets, total_tax, breakdown, marginal_rate, effective_rate,
                   after_tax_income>>

NoCall == [fn |-> "none", fs |-> None, bs |-> None, ti |-> None, tt |-> None,
           gross |-> None]

MainInit ==
    /\ call = NoCall
    /\ ret = None
    /\ pc = "filing_status"
    /\ filing_status = None
    /\ entered = None
    /\ income = None
    /\ taxable_income = None
    /\ deduction = None
    /\ deduction_type = "unset"
    /\ state = None
    /\ state_tax_amount = None
    /\ state_label = "unset"
    /\ brackets = <<>>
    /\ total_tax = None
    /\ breakdown = <<>>
    /\ marginal_rate = 0
    /\ effective_rate = None
    /\ after_tax_income = None

MainNext ==
    \/ PromptFilingStatus
    \/ GetIncome
    \/ ConfirmIncome
    \/ ChooseDeduction
    \/ CustomDeduction
    \/ EnterState
    \/ RunAgain

MainSpec == MainInit /\ [][MainNext]_vars

(***************************************************************************)
(* calculator.py called directly: every function of the module on          *)
(* arguments drawn from bounded sets.  call records the function and its   *)
(* arguments, ret what it returned.                                        *)
(***************************************************************************)
\* How far around each bracket bound the taxable incomes are drawn.
Delta == 1

FilingKeys ==
    { SINGLE, MFJ, <<"h", "o", "h">>, <<"S", "I", "N", "G", "L", "E">>, <<>> }

Schedules == { get_federal_brackets(k) : k \in FilingKeys }

BoundsOf(bs) == { bs[i][2].n : i \in 1..Len(bs) }

Bounds == UNION { BoundsOf(bs) : bs \in Schedules }

Incomes ==
    { Fin(b + d) : b \in Bounds, d \in (0 - Delta)..Delta }
        \cup { Fin(50000), Fin(1000000), Fin(0 - 5000), PosInf, NegInf, NaN }

Totals == { Fin(0), Fin(591400), Fin(0 - 100), PosInf, NaN }

Grosses ==
    { Fin(0), Fin(1), Fin(50000), Fin(0 - 5000), PosInf, NegInf, NaN }

Call_calculate_total_tax ==
    /\ \E ti \in Incomes, bs \in Schedules :
        /\ call' = [NoCall EXCEPT !.fn = "calculate_total_tax", !.ti = ti, !.bs = bs]
        /\ ret' = calculate_total_tax(ti, bs)
    /\ UNCHANGED mainVars

Call_calculate_tax_breakdown ==
    /\ \E ti \in Incomes, bs \in Schedules :
        /\ call' = [NoCall EXCEPT !.fn = "calculate_tax_breakdown", !.ti = ti,
                                  !.bs = bs]
        /\ ret' = calculate_tax_breakdown(ti, bs)
    /\ UNCHANGED mainVars

Call_get_marginal_rate ==
    /\ \E ti \in Incomes, bs \in Schedules :
        /\ call' = [NoCall EXCEPT !.fn = "get_marginal_rate", !.ti = ti, !.bs = bs]
        /\ ret' = get_marginal_rate(ti, bs)
    /\ UNCHANGED mainVars

Call_calculate_effective_rate ==
    /\ \E tt \in Totals, gross \in Grosses :
        /\ call' = [NoCall EXCEPT !.fn = "calculate_effective_rate", !.tt = tt,
                                  !.gross = gross]
        /\ ret' = calculate_effective_rate(tt, gross)
    /\ UNCHANGED mainVars

Call_get_federal_brackets ==
    /\ \E fs \in FilingKeys :
        /\ call' = [NoCall EXCEPT !.fn = "get_federal_brackets", !.fs = fs]
        /\ ret' = get_federal_brackets(fs)
    /\ UNCHANGED mainVars

Call_get_standard_deduction ==
    /\ \E fs \in FilingKeys :
        /\ call' = [NoCall EXCEPT !.fn = "get_standard_deduction", !.fs = fs]
        /\ ret' = get_standard_deduction(fs)
    /\ UNCHANGED mainVars

Init == MainInit

Next ==
    \/ Call_calculate_total_tax
    \/ Call_calculate_tax_breakdown
    \/ Call_get_marginal_rate
    \/ Call_calculate_effective_rate
    \/ Call_get_federal_brackets
    \/ Call_get_standard_deduction

Spec == Init /\ [][Next]_vars

(***************************************************************************)
(* Properties                                                              *)
(***************************************************************************)
\* The Bracket Schedule invariants: non-empty, lower bounds strictly
\* increasing, contiguous, rates ascending, first bracket at 0, and the last
\* bracket alone without an upper bound.
ValidSchedule(bs) ==
    /\ Len(bs) > 0
    /\ bs[1][2] = Fin(0)
    /\ \A i \in 1..Len(bs) : (bs[i][3] = None) <=> (i = Len(bs))
    /\ \A i \in 1..(Len(bs) - 1) :
        /\ FLt(bs[i][2], bs[i + 1][2])
        /\ bs[i + 1][2] = bs[i][3]
        /\ bs[i][1] < bs[i + 1][1]

NonNegative(a) == FLe(Fin(0), a)

\* The brackets whose lower bound is below the taxable income.
Reached(ti, bs) == { i \in 1..Len(bs) : FLt(bs[i][2], ti) }

\* min(ti, upper or +infinity) - lower, by cases.
TaxedAmount(ti, b) ==
    IF b[3] # None /\ FLt(b[3], ti) THEN FSub(b[3], b[2]) ELSE FSub(ti, b[2])

\* The reference sum: over every bracket with lower < ti, rate * taxed amount.
RECURSIVE ReferenceTax(_, _, _)
ReferenceTax(ti, bs, S) ==
    IF S = {} THEN Fin(0)
    ELSE LET i == CHOOSE j \in S : TRUE
         IN FAdd(ReferenceTax(ti, bs, S \ {i}), FMul(TaxedAmount(ti, bs[i]), bs[i][1]))

\* The sum of the tax amounts of a breakdown's entries, first to last.
RECURSIVE SumOfEntries(_)
SumOfEntries(bd) ==
    IF bd = <<>> THEN Fin(0)
    ELSE FAdd(SumOfEntries(SubSeq(bd, 1, Len(bd) - 1)), bd[Len(bd)][3])

MaxOf(S) == CHOOSE i \in S : \A j \in S : j <= i

\* C1: on every registry schedule and taxable income >= 0, calculate_total_tax
\* returns a value >= 0, and no smaller income >= 0 yields a larger total.
C1_TotalTaxNonNegativeMonotone ==
    (/\ call.fn = "calculate_total_tax"
     /\ call.bs \in {get_federal_brackets(SINGLE), get_federal_brackets(MFJ)}
     /\ NonNegative(call.ti))
    => /\ NonNegative(ret)
       /\ \A a \in Incomes :
            (NonNegative(a) /\ FLe(a, call.ti))
                => FLe(calculate_total_tax(a, call.bs), ret)
       /\ \A b \in Incomes :
            FLe(call.ti, b) => FLe(ret, calculate_total_tax(b, call.bs))

C1_Witness ==
    /\ call.fn = "calculate_total_tax"
    /\ call.bs = get_federal_brackets(MFJ)
    /\ call.ti = Fin(23851)
    /\ ret = Fin(238512)

\* C2: on a valid schedule and taxable income >= 0, the total returned by
\* calculate_tax_breakdown is the sum of its entries' tax amounts and equals
\* what calculate_total_tax returns for the same arguments.
C2_BreakdownSumsToTotal ==
    (/\ call.fn = "calculate_tax_breakdown"
     /\ ValidSchedule(call.bs)
     /\ NonNegative(call.ti))
    => /\ ret[1] = SumOfEntries(ret[2])
       /\ ret[1] = calculate_total_tax(call.ti, call.bs)

C2_Witness ==
    /\ call.fn = "calculate_tax_breakdown"
    /\ call.bs = get_federal_brackets(SINGLE)
    /\ call.ti = Fin(11926)
    /\ Len(ret[2]) = 2
    /\ ret[1] = Fin(119262)

\* C3: on a valid schedule and taxable income >= 0, calculate_total_tax is the
\* reference sum over the brackets with lower < income; for the single
\* schedule at 50000 it is 5914.00.
C3_TotalTaxIsReferenceSum ==
    (/\ call.fn = "calculate_total_tax"
     /\ ValidSchedule(call.bs)
     /\ NonNegative(call.ti))
    => /\ ret = ReferenceTax(call.ti, call.bs, Reached(call.ti, call.bs))
       /\ (call.bs = get_federal_brackets(SINGLE) /\ call.ti = Fin(50000))
            => ret = Fin(591400)

C3_Witness ==
    /\ call.fn = "calculate_total_tax"
    /\ call.bs = get_federal_brackets(SINGLE)
    /\ call.ti = Fin(50000)
    /\ ret = Fin(591400)

\* C4: on a valid schedule and taxable income >= 0, the breakdown has one entry
\* per bracket with lower < income, in bracket order, each with a positive
\* taxed amount, and no other entry; it is empty at 0, has 3 entries for single
\* at 50000, and for married-filing-jointly at 1000000 ends with the entry of
\* rate 0.37, lower bound 751600, no upper bound and taxed amount 248400.
C4_BreakdownEntries ==
    (/\ call.fn = "calculate_tax_breakdown"
     /\ ValidSchedule(call.bs)
     /\ NonNegative(call.ti))
    => LET bd == ret[2]
           bs == call.bs
       IN /\ Len(bd) = Cardinality(Reached(call.ti, bs))
          /\ \A j \in 1..Len(bd) :
                /\ j \in Reached(call.ti, bs)
                /\ bd[j][1] = bs[j][1]
                /\ bd[j][4] = bs[j][2]
                /\ bd[j][5] = bs[j][3]
                /\ bd[j][2] = TaxedAmount(call.ti, bs[j])
                /\ FGt(bd[j][2], Fin(0))
          /\ call.ti = Fin(0) => bd = <<>>
          /\ (bs = get_federal_brackets(SINGLE) /\ call.ti = Fin(50000))
                => Len(bd) = 3
          /\ (bs = get_federal_brackets(MFJ) /\ call.ti = Fin(1000000))
                => /\ bd[Len(bd)][1] = 37
                   /\ bd[Len(bd)][4] = Fin(751600)
                   /\ bd[Len(bd)][5] = None
                   /\ bd[Len(bd)][2] = Fin(248400)

C4_Witness ==
    /\ call.fn = "calculate_tax_breakdown"
    /\ call.bs = get_federal_brackets(MFJ)
    /\ call.ti = Fin(1000000)
    /\ Len(ret[2]) = 7
    /\ ret[2][7] = <<37, Fin(248400), Fin(9190800), Fin(751600), None>>

\* C5: on a valid schedule and any taxable income, get_marginal_rate returns
\* the rate of the highest bracket with lower < income, 0 when there is none,
\* and the top bracket's rate above every finite upper bound.
C5_MarginalRate ==
    (call.fn = "get_marginal_rate" /\ ValidSchedule(call.bs))
    => LET R == Reached(call.ti, call.bs)
           top == call.bs[Len(call.bs)]
       IN /\ ret = (IF R = {} THEN 0 ELSE call.bs[MaxOf(R)][1])
          /\ FLe(call.ti, call.bs[1][2]) => ret = 0
          /\ FGt(call.ti, top[2]) => ret = top[1]

C5_Witness ==
    /\ call.fn = "get_marginal_rate"
    /\ call.bs = get_federal_brackets(SINGLE)
    /\ call.ti = Fin(48475)
    /\ ret = 12

\* C6: on a valid schedule and taxable income > 0, get_marginal_rate returns
\* the rate of the last entry of calculate_tax_breakdown's breakdown.
C6_MarginalRateIsLastEntryRate ==
    (/\ call.fn = "get_marginal_rate"
     /\ ValidSchedule(call.bs)
     /\ FGt(call.ti, Fin(0)))
    => LET bd == calculate_tax_breakdown(call.ti, call.bs)[2]
       IN bd # <<>> /\ ret = bd[Len(bd)][1]

C6_Witness ==
    /\ call.fn = "get_marginal_rate"
    /\ call.bs = get_federal_brackets(MFJ)
    /\ call.ti = Fin(96951)
    /\ ret = 22

\* C7: the schedule the registry returns for each filing status of the closed
\* set (single, mfj) satisfies the Bracket Schedule invariants.
C7_RegistrySchedulesValid ==
    (call.fn = "get_federal_brackets" /\ call.fs \in {SINGLE, MFJ})
    => ValidSchedule(ret)

C7_Witness ==
    /\ call.fn = "get_federal_brackets"
    /\ call.fs = MFJ
    /\ Len(ret) = 7
    /\ ret[7] = <<37, Fin(751600), None>>

\* C8: for a filing status the registry does not hold, get_federal_brackets
\* returns the empty sequence and get_standard_deduction returns 0, neither
\* raising; calculate_total_tax on the empty schedule returns 0 for any income.
C8_UnknownStatusDefaults ==
    /\ (call.fn = "get_federal_brackets" /\ call.fs \notin {SINGLE, MFJ})
        => ret = <<>>
    /\ (call.fn = "get_standard_deduction" /\ call.fs \notin {SINGLE, MFJ})
        => ret = Fin(0)
    /\ (call.fn = "calculate_total_tax" /\ call.bs = <<>>) => ret = Fin(0)

C8_Witness ==
    /\ call.fn = "get_standard_deduction"
    /\ call.fs = <<"h", "o", "h">>
    /\ ret = Fin(0)

\* C9: calculate_effective_rate returns total_tax / gross_income when
\* gross_income > 0 and 0 otherwise, and main passes it the gross income.
C9_EffectiveRate ==
    pc = "again"
    => effective_rate =
        (IF FGt(income, Fin(0)) THEN FDiv(total_tax, Cents(income)) ELSE Fin(0))

\* C10: the taxable income main passes to the engine is >= 0 and the filing
\* status it passes to the registry is a recognised key.
C10_TaxableIncomeNonNegative ==
    pc = "again"
    => NonNegative(taxable_income) /\ filing_status \in {SINGLE, MFJ}

====
